---- MODULE Spec2Model ----
(***************************************************************************)
(* Model of PyGistApi: the retrying request executor                       *)
(* (Requester._async_request, base.py) and the resource operations built   *)
(* on it (AsyncGistClient, async_gist_api.py).                             *)
(*                                                                         *)
(* One client is constructed and then used for a sequence of operation     *)
(* calls.  An operation runs as one coroutine; the model splits it at its  *)
(* two suspension points, the network exchange and the post-attempt sleep. *)
(* Python values are records [type, val]; Python strings are TLA+ strings. *)
(***************************************************************************)
EXTENDS Integers, Sequences, FiniteSets, TLC

VARIABLES
    env,      \* module globals PyGistApi.auth_token / auth_token_path
    ctor,     \* the arguments the constructor was called with
    self,     \* the client object's fields
    pc,       \* position of the running coroutine
    op,       \* the operation being executed and its arguments
    gist,     \* update_gist's local `gist`
    req,      \* _async_request's arguments
    tries,    \* _async_request's local `tries`
    resp,     \* _async_request's local `resp`
    trace,    \* network attempts and sleeps of the current executor call
    calls,    \* executor calls made by the current operation
    result    \* how the current operation ended

vars == <<env, ctor, self, pc, op, gist, req, tries, resp, trace, calls, result>>

(***************************************************************************)
(* Bounds                                                                  *)
(***************************************************************************)
MaxRetries == 3      \* max_connection_retries ranges over 0..MaxRetries
MaxPaths == 2        \* longest list of paths passed to create_gist

(***************************************************************************)
(* Python values                                                           *)
(***************************************************************************)
None == [type |-> "NoneType", val |-> ""]
PyStr(s) == [type |-> "str", val |-> s]
PyInt(n) == [type |-> "int", val |-> n]
PyBool(n) == [type |-> "bool", val |-> n]
PyList(q) == [type |-> "list", val |-> q]

\* Python truthiness, as used by `x or y` and `if x:`
Truthy(v) ==
    CASE v.type = "NoneType" -> FALSE
      [] v.type = "str" -> v.val # ""
      [] v.type = "list" -> v.val # <<>>
      [] OTHER -> v.val # 0

\* isinstance(v, int): bool is a subclass of int
IsInt(v) == v.type \in {"int", "bool"}
IsStr(v) == v.type = "str"
IsList(v) == v.type = "list"

\* f"{v}" for None and str
Format(v) == IF v.type = "NoneType" THEN "None" ELSE v.val

Whitespace == {" ", "\n", "\t"}

RECURSIVE LStrip(_)
LStrip(s) ==
    IF s # "" /\ SubSeq(s, 1, 1) \in Whitespace
    THEN LStrip(SubSeq(s, 2, Len(s)))
    ELSE s

RECURSIVE RStrip(_)
RStrip(s) ==
    IF s # "" /\ SubSeq(s, Len(s), Len(s)) \in Whitespace
    THEN RStrip(SubSeq(s, 1, Len(s) - 1))
    ELSE s

\* str.strip()
Strip(s) == RStrip(LStrip(s))

\* str.startswith(prefix)
StartsWith(s, prefix) ==
    Len(s) >= Len(prefix) /\ SubSeq(s, 1, Len(prefix)) = prefix

\* os.path.basename(path): what follows the last "/"
RECURSIVE basename(_)
basename(path) ==
    IF \E i \in 1..Len(path) : SubSeq(path, i, i) = "/"
    THEN basename(SubSeq(path,
             (CHOOSE i \in 1..Len(path) : SubSeq(path, i, i) = "/") + 1,
             Len(path)))
    ELSE path

(***************************************************************************)
(* The file system the process sees: path -> text of the regular file      *)
(***************************************************************************)
Disk ==
    ("d/a.txt" :> " one\n") @@ ("e/a.txt" :> "two") @@ ("b.txt" :> "three\n")
    @@ ("good.tok" :> "ghp_C\n") @@ ("bad.tok" :> "token\n")

\* os.path.isfile(path)
isfile(path) == path \in DOMAIN Disk

\* open(path).read()
read(path) == Disk[path]

(***************************************************************************)
(* Requester.BASE_HEADERS, API_URL and the constructor defaults            *)
(***************************************************************************)
BASE_HEADERS ==
    [Accept |-> "application/vnd.github+json",
     XGitHubApiVersion |-> "2022-11-28"]

API_URL == "https://api.github.com/gists"

DefaultTimeout == 5
DefaultSleepMs == 500

(***************************************************************************)
(* utils.get_auth_token                                                    *)
(***************************************************************************)
Return(v) == [kind |-> "return", val |-> v]
Raise(e, m) == [kind |-> "raise", exc |-> e, msg |-> m]
NoResult == [kind |-> "none"]

get_auth_token(e) ==
    IF Truthy(e.auth_token_path)
    THEN IF ~isfile(e.auth_token_path.val)
         THEN Raise("FileNotFoundError", e.auth_token_path.val)
         ELSE LET token == Strip(read(e.auth_token_path.val))
              IN  IF ~StartsWith(token, "ghp_")
                  THEN Raise("ValueError", "Invalid Token Format")
                  ELSE Return(PyStr(token))
    ELSE IF Truthy(e.auth_token)
         THEN Return(e.auth_token)
         ELSE Raise("AuthenticationError", "You can set your auth token")

(***************************************************************************)
(* Initial state: the module is imported, no client exists yet             *)
(***************************************************************************)
EnvTokens == {None, PyStr("ghp_B")}
EnvPaths == {None, PyStr("good.tok"), PyStr("bad.tok")}
CtorTokens == {None, PyStr(""), PyStr("ghp_A")}

NoSelf == [constructed |-> FALSE]
NoOp == [name |-> "none"]
NoReq == [method |-> "none"]

Init ==
    /\ env \in [auth_token : EnvTokens, auth_token_path : EnvPaths]
    /\ ctor = NoOp
    /\ self = NoSelf
    /\ pc = "new"
    /\ op = NoOp
    /\ gist = None
    /\ req = NoReq
    /\ tries = 0
    /\ resp = None
    /\ trace = <<>>
    /\ calls = <<>>
    /\ result = NoResult

(***************************************************************************)
(* Requester.__init__ (reached through AsyncGistClient.__init__)           *)
(***************************************************************************)
\* auth_token or get_auth_token()
ResolveToken(auth_token, e) ==
    IF Truthy(auth_token) THEN Return(auth_token) ELSE get_auth_token(e)

\* self.headers["Authorization"] = f"Bearer {auth_token}"
AuthorizationHeader(auth_token) == "Bearer " \o Format(auth_token)

Requester_init(auth_token, timeout, sleep_time, max_connection_retries) ==
    LET resolved == ResolveToken(auth_token, env)
    IN  /\ pc = "new"
        /\ ctor' = [name |-> "__init__", auth_token |-> auth_token,
                    max_connection_retries |-> max_connection_retries]
        /\ IF resolved.kind = "raise"
           THEN /\ pc' = "ctor_failed"
                /\ result' = resolved
                /\ self' = self
           ELSE /\ pc' = "idle"
                /\ result' = result
                /\ self' = [auth_token |-> resolved.val,
                            timeout |-> timeout,
                            sleep_time |-> sleep_time,
                            retries |-> max_connection_retries,
                            headers |-> [Accept |-> BASE_HEADERS.Accept,
                                         XGitHubApiVersion |->
                                             BASE_HEADERS.XGitHubApiVersion,
                                         Authorization |->
                                             AuthorizationHeader(auth_token)]]
        /\ UNCHANGED <<env, op, gist, req, tries, resp, trace, calls>>

Construct ==
    \E auth_token \in CtorTokens, retries \in 0..MaxRetries :
        Requester_init(auth_token, DefaultTimeout, DefaultSleepMs, retries)

(***************************************************************************)
(* The network: what one exchange can produce                              *)
(***************************************************************************)
EmptyDict == [k \in {} |-> None]

Statuses == {200, 404}

\* response bodies: absent or undecodable text, a JSON array (its elements
\* are never looked at), a JSON object
Bodies ==
    {[json |-> "invalid", val |-> EmptyDict],
     [json |-> "array", val |-> EmptyDict],
     [json |-> "object", val |-> EmptyDict],
     [json |-> "object", val |-> [message |-> "Not Found", code |-> "custom"]],
     [json |-> "object", val |-> [id |-> "g1", files |-> EmptyDict]],
     [json |-> "object",
      val |-> [id |-> "g1",
               files |-> [k \in {"a.txt"} |->
                             [filename |-> k, content |-> "old"]]]]}

Exchanges ==
    [kind : {"response"}, status_code : Statuses, body : Bodies]
    \cup {[kind |-> "timeout", e |-> "timed out"],
          [kind |-> "error", e |-> "connection refused"]}

(***************************************************************************)
(* Requester._async_request                                                *)
(***************************************************************************)
\* entry: lines 60-62, then the first evaluation of the loop condition
StartRequest(method, endpoint, data, params, caller, made) ==
    /\ req' = [method |-> method, url |-> API_URL \o endpoint,
               data |-> data, params |-> params, caller |-> caller]
    /\ tries' = 0
    /\ resp' = None
    /\ trace' = <<>>
    /\ calls' = Append(made, [method |-> method, url |-> API_URL \o endpoint,
                              data |-> data, params |-> params,
                              outcome |-> "pending"])
    /\ pc' = "loop"

\* the calls of this operation, the running one marked as ended
Ended(how) ==
    [i \in 1..Len(calls) |->
        IF i = Len(calls) THEN [calls[i] EXCEPT !.outcome = how] ELSE calls[i]]

\* the operation ends: it returns or raises `res`
Finish(res, made) ==
    /\ pc' = "done"
    /\ result' = res
    /\ calls' = made

\* while resp is None and tries <= self.retries
LoopCondition == resp = None /\ tries <= self.retries

\* if tries >= self.retries: raise
BudgetSpent(t) == t >= self.retries

\* lines 64-79: one pass of the loop body up to the sleep
ExecAttempt ==
    /\ pc = "loop"
    /\ LoopCondition
    /\ \E x \in Exchanges :
         LET t == tries + 1
             sent == [ev |-> "attempt", outcome |-> x.kind,
                      headers |-> self.headers]
         IN  /\ tries' = t
             /\ trace' = Append(trace, sent)
             /\ IF x.kind = "response"
                THEN /\ resp' = [status_code |-> x.status_code,
                                 body |-> x.body]
                     /\ pc' = "sleep"
                     /\ UNCHANGED <<calls, result>>
                ELSE /\ resp' = resp
                     /\ IF BudgetSpent(t)
                        THEN IF x.kind = "timeout"
                             THEN Finish(Raise("TimeoutException",
                                               "Timeout error: " \o x.e),
                                         Ended("raise"))
                             ELSE Finish(Raise("UnExpectedError",
                                     "An Unexpected error occurred: " \o x.e),
                                         Ended("raise"))
                        ELSE /\ pc' = "sleep"
                             /\ UNCHANGED <<calls, result>>
    /\ UNCHANGED <<env, ctor, self, op, gist, req>>

\* ExecSleep with the sleep moved into the except branches
ExecSleepOnlyAfterFailure ==
    /\ pc = "sleep"
    /\ trace' = IF resp = None
                THEN Append(trace, [ev |-> "sleep", ms |-> self.sleep_time])
                ELSE trace
    /\ pc' = "loop"
    /\ UNCHANGED <<env, ctor, self, op, gist, req, tries, resp, calls, result>>

\* line 81: await asyncio.sleep(self.sleep_time)
ExecSleep ==
    /\ pc = "sleep"
    /\ trace' = Append(trace, [ev |-> "sleep", ms |-> self.sleep_time])
    /\ pc' = "loop"
    /\ UNCHANGED <<env, ctor, self, op, gist, req, tries, resp, calls, result>>

\* lines 83-89: decode the body and merge the status code into it
Normalize(r) ==
    IF r = None
    THEN Raise("AttributeError", "'NoneType' object has no attribute 'json'")
    ELSE LET json_ == IF r.body.json = "invalid" THEN EmptyDict
                      ELSE r.body.val
         IN  IF r.body.json = "array"
             THEN Raise("TypeError",
                        "list indices must be integers or slices, not str")
             ELSE Return([k \in DOMAIN json_ \cup {"code"} |->
                             IF k = "code" THEN r.status_code ELSE json_[k]])

\* AsyncGistClient.update_gist from the return of get_gist on
PatchData(description, filename_to_update, text) ==
    [description |-> description,
     files |-> [k \in {filename_to_update} |-> [content |-> text]]]

\* MissingFile without the look-up of the named file
MissingFileFilesOnly(fetched, name) ==
    IF "files" \notin DOMAIN fetched
    THEN Return([message |-> "files not found"])
    ELSE NoResult

\* update_gist lines 148-152: the informational results
MissingFile(fetched, name) ==
    IF "files" \notin DOMAIN fetched
    THEN Return([message |-> "files not found"])
    ELSE IF name \notin DOMAIN fetched.files
    THEN Return([message |-> "File '" \o name \o "' not found in the Gist."])
    ELSE NoResult

update_gist_resume(fetched) ==
    LET a == op.args
        name == a.filename_to_update
        soft == MissingFile(fetched, name)
    IN  /\ gist' = fetched
        /\ IF soft.kind = "return"
           THEN /\ Finish(soft, Ended("return"))
                /\ UNCHANGED <<req, tries, resp, trace>>
           ELSE IF ~IsStr(a.content)
           THEN /\ Finish(Raise("InvalidArg",
                                "content should be str or a file path"),
                          Ended("return"))
                /\ UNCHANGED <<req, tries, resp, trace>>
           ELSE /\ StartRequest("PATCH", "/" \o a.gist_id,
                       PatchData(a.description, name,
                                 IF isfile(a.content.val)
                                 THEN Strip(read(a.content.val))
                                 ELSE a.content.val),
                       None, "update_gist", Ended("return"))
                /\ result' = result

\* the loop is left; the result goes back to the awaiting coroutine
ExecReturn ==
    /\ pc = "loop"
    /\ ~LoopCondition
    /\ LET out == Normalize(resp)
       IN  IF out.kind = "return" /\ op.name = "update_gist"
              /\ req.caller = "get_gist"
           THEN update_gist_resume(out.val)
           ELSE /\ Finish(out, Ended(out.kind))
                /\ UNCHANGED <<gist, req, tries, resp, trace>>
    /\ UNCHANGED <<env, ctor, self, op>>

(***************************************************************************)
(* AsyncGistClient: the resource operations                                *)
(***************************************************************************)
GistIds == {"g1"}
PerPages == {PyInt(30), PyInt(100), PyInt(101), PyBool(1), PyStr("30"), None}
Pages == {PyInt(1), PyStr("1")}
Sinces == {""}
Paths == {"d/a.txt", "e/a.txt", "b.txt", "nofile.txt"}
PathLists == UNION {[1..n -> Paths] : n \in 0..MaxPaths}
Contents ==
    {PyInt(5), PyStr("hello"), PyStr("b.txt")}
    \cup {PyList(q) : q \in PathLists}
FileNames == {None, PyStr(""), PyStr("n.txt")}
UpdateContents == {PyStr("new"), PyStr("b.txt"), PyInt(5), PyList(<<"b.txt">>)}
UpdateNames == {"a.txt", "z.txt"}
Descriptions == {"desc"}

Ready == pc = "idle"

\* the caller has the result of the finished call; its frames are released
Collect ==
    /\ pc = "done"
    /\ pc' = "idle"
    /\ op' = NoOp
    /\ gist' = None
    /\ req' = NoReq
    /\ tries' = 0
    /\ resp' = None
    /\ trace' = <<>>
    /\ calls' = <<>>
    /\ result' = NoResult
    /\ UNCHANGED <<env, ctor, self>>

\* a call of an operation starts: the previous call's locals are gone
Begin(name, args) ==
    /\ Ready
    /\ op' = [name |-> name, args |-> args]
    /\ gist' = None
    /\ UNCHANGED <<env, ctor, self>>

\* the operation ends before it awaits the executor
FinishEarly(res) ==
    /\ Finish(res, <<>>)
    /\ req' = NoReq
    /\ tries' = 0
    /\ resp' = None
    /\ trace' = <<>>

\* the operation awaits self._async_request(...)
Await(method, endpoint, data, params, caller) ==
    /\ StartRequest(method, endpoint, data, params, caller, <<>>)
    /\ result' = NoResult

\* PaginationError without the check of page
PaginationErrorNoPageCheck(per_page, page) ==
    IF ~IsInt(per_page) \/ per_page.val > 100
    THEN Raise("InvalidArg", "per_page should be an integer and less than 100")
    ELSE NoResult

\* the check that opens every paginated operation
PaginationError(per_page, page) ==
    IF ~IsInt(per_page) \/ per_page.val > 100
    THEN Raise("InvalidArg", "per_page should be an integer and less than 100")
    ELSE IF ~IsInt(page)
    THEN Raise("InvalidArg", "page should be an integer")
    ELSE NoResult

list_gists ==
    \E per_page \in PerPages, page \in Pages, since \in Sinces :
        /\ Begin("list_gists",
                 [per_page |-> per_page, page |-> page, since |-> since])
        /\ LET err == PaginationError(per_page, page)
           IN  IF err.kind = "raise"
               THEN FinishEarly(err)
               ELSE Await("GET", "", None,
                          [per_page |-> per_page, page |-> page,
                           since |-> since], "list_gists")

public_gists ==
    \E per_page \in PerPages, page \in Pages, since \in Sinces :
        /\ Begin("public_gists",
                 [per_page |-> per_page, page |-> page, since |-> since])
        /\ LET err == PaginationError(per_page, page)
           IN  IF err.kind = "raise"
               THEN FinishEarly(err)
               ELSE Await("GET", "/public", None, None, "public_gists")

starred_gists ==
    \E per_page \in PerPages, page \in Pages, since \in Sinces :
        /\ Begin("starred_gists",
                 [per_page |-> per_page, page |-> page, since |-> since])
        /\ LET err == PaginationError(per_page, page)
           IN  IF err.kind = "raise"
               THEN FinishEarly(err)
               ELSE Await("GET", "/starred", None, None, "starred_gists")

gist_commits ==
    \E gist_id \in GistIds, per_page \in PerPages, page \in Pages :
        /\ Begin("gist_commits",
                 [gist_id |-> gist_id, per_page |-> per_page, page |-> page])
        /\ LET err == PaginationError(per_page, page)
           IN  IF err.kind = "raise"
               THEN FinishEarly(err)
               ELSE Await("GET", "/" \o gist_id \o "/commits", None,
                          [per_page |-> per_page, page |-> page],
                          "gist_commits")

gist_forks ==
    \E gist_id \in GistIds, per_page \in PerPages, page \in Pages :
        /\ Begin("gist_forks",
                 [gist_id |-> gist_id, per_page |-> per_page, page |-> page])
        /\ LET err == PaginationError(per_page, page)
           IN  IF err.kind = "raise"
               THEN FinishEarly(err)
               ELSE Await("GET", "/" \o gist_id \o "/forks", None,
                          [per_page |-> per_page, page |-> page],
                          "gist_forks")

\* ReadFiles keeping the whole path as the name
RECURSIVE ReadFilesKeyedByPath(_, _)
ReadFilesKeyedByPath(files, file_data) ==
    IF files = <<>>
    THEN file_data
    ELSE LET file == Head(files)
         IN  ReadFilesKeyedByPath(Tail(files),
                 IF isfile(file)
                 THEN [k \in {file} |->
                          [content |-> Strip(read(file))]] @@ file_data
                 ELSE file_data)

\* create_gist lines 101-108: read every listed path that is a file
RECURSIVE ReadFiles(_, _)
ReadFiles(files, file_data) ==
    IF files = <<>>
    THEN file_data
    ELSE LET file == Head(files)
         IN  ReadFiles(Tail(files),
                 IF isfile(file)
                 THEN [k \in {basename(file)} |->
                          [content |-> Strip(read(file))]] @@ file_data
                 ELSE file_data)

\* create_gist lines 93-115: the files of the request body, or the failure
CreateFiles(content, file_name) ==
    IF ~(IsStr(content) \/ IsList(content))
    THEN Raise("InvalidArg",
           "content should be str, list of file paths, or a single file path")
    ELSE IF IsList(content) \/ (IF IsStr(content) THEN isfile(content.val)
                                ELSE FALSE)
    THEN LET files == IF IsList(content) THEN content.val
                      ELSE <<content.val>>
             file_data == ReadFiles(files, EmptyDict)
         IN  IF DOMAIN file_data = {}
             THEN Raise("FileNotFoundError", "Unable to locate the file(s)")
             ELSE Return(file_data)
    ELSE Return([k \in {IF Truthy(file_name) THEN file_name.val
                        ELSE "untitled.txt"} |-> [content |-> content.val]])

create_gist ==
    \E content \in Contents, file_name \in FileNames,
       description \in Descriptions, public \in {FALSE} :
        /\ Begin("create_gist",
                 [content |-> content, file_name |-> file_name,
                  description |-> description, public |-> public])
        /\ LET files == CreateFiles(content, file_name)
           IN  IF files.kind = "raise"
               THEN FinishEarly(files)
               ELSE Await("POST", "", [description |-> description,
                                       public |-> public,
                                       files |-> files.val],
                          None, "create_gist")

update_gist ==
    \E content \in UpdateContents, gist_id \in GistIds,
       filename_to_update \in UpdateNames, description \in Descriptions :
        /\ Begin("update_gist",
                 [content |-> content, gist_id |-> gist_id,
                  filename_to_update |-> filename_to_update,
                  description |-> description])
        /\ Await("GET", "/" \o gist_id, None, None, "get_gist")

\* get_gist(gist_id), paste left at False
get_gist ==
    \E gist_id \in GistIds :
        /\ Begin("get_gist", [gist_id |-> gist_id, paste |-> FALSE])
        /\ Await("GET", "/" \o gist_id, None, None, "get_gist")

delete_gist ==
    \E gist_id \in GistIds :
        /\ Begin("delete_gist", [gist_id |-> gist_id])
        /\ Await("DELETE", "/" \o gist_id, None, None, "delete_gist")

fork_gist ==
    \E gist_id \in GistIds :
        /\ Begin("fork_gist", [gist_id |-> gist_id])
        /\ Await("POST", "/" \o gist_id \o "/forks", None, None, "fork_gist")

is_gist_starred ==
    \E gist_id \in GistIds :
        /\ Begin("is_gist_starred", [gist_id |-> gist_id])
        /\ Await("GET", "/" \o gist_id \o "/star", None, None,
                 "is_gist_starred")

star_gist ==
    \E gist_id \in GistIds :
        /\ Begin("star_gist", [gist_id |-> gist_id])
        /\ Await("PUT", "/" \o gist_id \o "/star", None, None, "star_gist")

unstar_gist ==
    \E gist_id \in GistIds :
        /\ Begin("unstar_gist", [gist_id |-> gist_id])
        /\ Await("DELETE", "/" \o gist_id \o "/star", None, None,
                 "unstar_gist")

gist_revision ==
    \E gist_id \in GistIds, sha \in {"abc"} :
        /\ Begin("gist_revision", [gist_id |-> gist_id, sha |-> sha])
        /\ Await("GET", "/" \o gist_id \o "/" \o sha, None, None,
                 "gist_revision")

Next ==
    \/ Construct
    \/ ExecAttempt
    \/ ExecSleep
    \/ ExecReturn
    \/ list_gists
    \/ public_gists
    \/ starred_gists
    \/ gist_commits
    \/ gist_forks
    \/ create_gist
    \/ update_gist
    \/ get_gist
    \/ delete_gist
    \/ fork_gist
    \/ is_gist_starred
    \/ star_gist
    \/ unstar_gist
    \/ gist_revision
    \/ Collect

Spec == Init /\ [][Next]_vars

(***************************************************************************)
(* Properties of the request executor                                      *)
(***************************************************************************)
IsAttempt(e) == e.ev = "attempt"
IsSleep(e) == e.ev = "sleep"

\* number of network attempts of the current executor call
Attempts == Cardinality({i \in 1..Len(trace) : IsAttempt(trace[i])})

\* the current executor call received a response
GotResponse ==
    \E i \in 1..Len(trace) :
        IsAttempt(trace[i]) /\ trace[i].outcome = "response"

\* the current executor call raised a transport failure
TransportRaised ==
    /\ pc = "done"
    /\ result.kind = "raise"
    /\ result.exc \in {"TimeoutException", "UnExpectedError"}

\* the executor is not between an attempt and the statement that follows it
AttemptSettled == pc \in {"loop", "done"}

\* the operation's result is the result of its last executor call
ResultIsExecutors ==
    /\ pc = "done"
    /\ calls # <<>>
    /\ ~(op.name = "update_gist" /\ req.caller = "get_gist")

\* C1: when every attempt of an executor call fails at the transport, the
\* call has made exactly retries + 1 network attempts when it raises.
C1_AttemptsBeforeRaise ==
    TransportRaised => Attempts = self.retries + 1

C3_ResponseEndsCall ==
    \A i \in 1..Len(trace) :
        (IsAttempt(trace[i]) /\ trace[i].outcome = "response") =>
            /\ \A j \in (i + 1)..Len(trace) : ~IsAttempt(trace[j])
            /\ pc = "done" => calls[Len(calls)].outcome = "return"

\* C4: a transport failure is raised only when the budget of retries + 1
\* attempts is spent, and its kind is the kind of the last failed attempt.
C4_RaisedKindAfterBudget ==
    TransportRaised =>
        /\ Attempts >= self.retries + 1
        /\ trace # <<>>
        /\ IsAttempt(trace[Len(trace)])
        /\ (trace[Len(trace)].outcome = "timeout"
               <=> result.exc = "TimeoutException")
        /\ (trace[Len(trace)].outcome = "error"
               <=> result.exc = "UnExpectedError")

\* C5: an executor call that received a response returns a mapping whose
\* "code" is the response's status code; for an absent or undecodable body
\* the mapping holds nothing else.
C5_StatusAlwaysMerged ==
    (ResultIsExecutors /\ resp # None) =>
        /\ result.kind = "return"
        /\ "code" \in DOMAIN result.val
        /\ result.val["code"] = resp.status_code
        /\ resp.body.json = "invalid" => DOMAIN result.val = {"code"}

(***************************************************************************)
(* Properties of the client and of the resource operations                 *)
(***************************************************************************)
\* the credential the constructor resolves: its argument when a token is
\* passed, the credential provider's token otherwise
ResolvedToken ==
    IF IsStr(ctor.auth_token) /\ ctor.auth_token.val # ""
    THEN ctor.auth_token.val
    ELSE get_auth_token(env).val.val

\* C6: every request sent carries the Authorization header
\* "Bearer <token>", <token> being the credential resolved at construction.
C6_BearerOfResolvedToken ==
    \A i \in 1..Len(trace) :
        IsAttempt(trace[i]) =>
            trace[i].headers.Authorization = "Bearer " \o ResolvedToken

PaginatedOps ==
    {"list_gists", "public_gists", "starred_gists", "gist_commits",
     "gist_forks"}

\* per_page > 100, or per_page or page not an integer
BadPaging(a) ==
    \/ a.per_page.type \notin {"int", "bool"}
    \/ a.page.type \notin {"int", "bool"}
    \/ a.per_page.val > 100

\* C7: a paginated operation called with per_page > 100, a non-integer
\* per_page or a non-integer page raises InvalidArg and makes no network
\* call.
C7_BadPagingRaisesOffline ==
    (op.name \in PaginatedOps /\ BadPaging(op.args)) =>
        /\ pc = "done"
        /\ result.kind = "raise"
        /\ result.exc = "InvalidArg"
        /\ calls = <<>>
        /\ Attempts = 0

\* starred_gists called with per_page = 30 and a page that is a string
C7_Witness ==
    /\ op.name = "starred_gists"
    /\ op.args.per_page = PyInt(30)
    /\ op.args.page = PyStr("1")
    /\ pc = "done"

\* C8: an operation that raises InvalidArg has made no executor call.
C8_InvalidArgBeforeNetwork ==
    (pc = "done" /\ result.kind = "raise" /\ result.exc = "InvalidArg") =>
        calls = <<>>

\* update_gist has the fetched resource
Fetched == op.name = "update_gist" /\ gist # None

\* the fetched resource holds the file update_gist is to change
HasNamedFile ==
    /\ "files" \in DOMAIN gist
    /\ op.args.filename_to_update \in DOMAIN gist.files

\* the one executor call made so far is the GET of the resource
OnlyTheGet ==
    /\ Len(calls) = 1
    /\ calls[1].method = "GET"
    /\ calls[1].url = API_URL \o "/" \o op.args.gist_id

\* update_gist starts with the GET; without the named file it returns a
\* message and sends no PATCH
C9_GetThenSoftFailure ==
    /\ op.name = "update_gist" =>
          /\ calls # <<>>
          /\ calls[1].method = "GET"
          /\ calls[1].url = API_URL \o "/" \o op.args.gist_id
    /\ (Fetched /\ ~HasNamedFile) =>
          /\ pc = "done"
          /\ result.kind = "return"
          /\ DOMAIN result.val = {"message"}
          /\ ("files" \in DOMAIN gist =>
                 result.val.message = "File '" \o op.args.filename_to_update
                                         \o "' not found in the Gist.")
          /\ OnlyTheGet

\* one PATCH after the GET, carrying the description and the named file
OnePatchAfterGet ==
    /\ Len(calls) = 2
    /\ calls[1].method = "GET"
    /\ calls[2].method = "PATCH"
    /\ calls[2].url = API_URL \o "/" \o op.args.gist_id
    /\ DOMAIN calls[2].data = {"description", "files"}
    /\ calls[2].data.description = op.args.description
    /\ DOMAIN calls[2].data.files = {op.args.filename_to_update}

Listed ==
    IF IsList(op.args.content)
    THEN {op.args.content.val[i] : i \in 1..Len(op.args.content.val)}
    ELSE {op.args.content.val}

OnDisk == {p \in Listed : isfile(p)}

\* create_gist is given a list, or a string naming an existing file
FromDisk ==
    /\ op.name = "create_gist"
    /\ \/ IsList(op.args.content)
       \/ IsStr(op.args.content) /\ isfile(op.args.content.val)

\* create_gist is given any other string
Inline ==
    /\ op.name = "create_gist"
    /\ IsStr(op.args.content)
    /\ ~isfile(op.args.content.val)

\* the last listed path with the given base name that is on disk
LastNamed(name) ==
    LET q == op.args.content.val
        at == {i \in 1..Len(q) : isfile(q[i]) /\ basename(q[i]) = name}
    IN  q[CHOOSE i \in at : \A j \in at : j <= i]

\* without a path on disk create_gist raises FileNotFoundError unsent;
\* any other string goes out inline under the given or default name
C10_NotFoundAndInline ==
    /\ (FromDisk /\ OnDisk = {}) =>
          /\ pc = "done"
          /\ result.kind = "raise"
          /\ result.exc = "FileNotFoundError"
          /\ calls = <<>>
    /\ (FromDisk /\ OnDisk # {}) =>
          /\ calls # <<>>
          /\ calls[1].method = "POST"
          /\ \A name \in DOMAIN calls[1].data.files :
                \E p \in OnDisk : name = basename(p)
    /\ Inline =>
          /\ calls # <<>>
          /\ calls[1].method = "POST"
          /\ calls[1].data.files =
                [k \in {IF op.args.file_name \in {None, PyStr("")}
                        THEN "untitled.txt"
                        ELSE op.args.file_name.val} |->
                    [content |-> op.args.content.val]]

\* C10 (as stated): the files mapping sent holds one entry per listed path
\* that exists on disk, keyed by the path's base name; with no such path
\* create_gist raises FileNotFoundError and sends nothing; any other string
\* is sent inline under the given or default file name.
C10_EntryPerExistingPath ==
    /\ C10_NotFoundAndInline
    /\ (FromDisk /\ OnDisk # {}) =>
          Cardinality(DOMAIN calls[1].data.files) = Cardinality(OnDisk)

\* C10 (amended): the files mapping sent holds one entry per distinct base
\* name among the listed paths that exist on disk, with the stripped text of
\* the last listed path of that base name; the rest as stated.
C10_EntryPerBaseName ==
    /\ C10_NotFoundAndInline
    /\ (FromDisk /\ OnDisk # {}) =>
          /\ DOMAIN calls[1].data.files = {basename(p) : p \in OnDisk}
          /\ IsList(op.args.content) =>
                \A name \in DOMAIN calls[1].data.files :
                    calls[1].data.files[name] =
                        [content |-> Strip(read(LastNamed(name)))]
          /\ IsStr(op.args.content) =>
                calls[1].data.files[basename(op.args.content.val)] =
                    [content |-> Strip(read(op.args.content.val))]

\* create_gist sent the files of a list of two paths on disk that share
\* the base name a.txt: one entry, with the text of the second path
C10_Witness ==
    /\ op.name = "create_gist"
    /\ op.args.content = PyList(<<"d/a.txt", "e/a.txt">>)
    /\ pc = "done"
    /\ result.kind = "return"
    /\ calls[1].data.files = [k \in {"a.txt"} |-> [content |-> "two"]]

\* C11: a paginated operation called with valid per_page and page issues a
\* single request, whose query parameters carry those per_page and page.
C11_PagingSentAsParams ==
    (op.name \in PaginatedOps /\ ~BadPaging(op.args)) =>
        /\ Len(calls) = 1
        /\ calls[1].method = "GET"
        /\ "per_page" \in DOMAIN calls[1].params
        /\ "page" \in DOMAIN calls[1].params
        /\ calls[1].params.per_page = op.args.per_page
        /\ calls[1].params.page = op.args.page

====
